---- MODULE Spec2Model ----
(***************************************************************************)
(* Model of the Tecnaria QA bot: the backend answer pipeline (app.py, kept *)
(* in the repository as static/static/data/critici/sinapsi_rules.json) and *)
(* the browser-side wizard scripts that build the context string.          *)
(*                                                                         *)
(* Texts are sequences of tokens.  A token is a short string standing for  *)
(* a run of characters of the real text:                                   *)
(*   "s" a space, "n" a newline, "x" "y" ordinary words,                   *)
(*   "F" the marker **Fonti**, "E" / "e" the words "Ecco le informazioni"  *)
(*   as written in the lead / in lower case, "l1" "l2" the rest of the two *)
(*   lines of the lead, "O" / "o" the word OK / ok, "-" a dash,            *)
(*   "R" one of the header words Riferimento / Sintesi, "." ";" sentence   *)
(*   terminators, "T" an HTML tag, "k" a keyword of the synthesizer,       *)
(*   "P" P560, "H" HSBR, "A" ETA, "U" European Technical Assessment,       *)
(*   "L" lamiera, "B" Hi-Bond, "N" the postscript heading, "fb" the        *)
(*   fallback sentence, "u1".. URLs, "..." the placeholder of shorten.     *)
(***************************************************************************)
EXTENDS Integers, Sequences, FiniteSets, TLC

VARIABLES
  \* backend process state (module globals of app.py)
  SINAPSI_RULES, SEARCH_PROVIDER, BRAVE_API_KEY, BING_API_KEY,
  PREFERRED_DOMAINS, requests,
  \* the candidate rule files of the directory CRITICI_DIR
  CRITICI_DIR,
  \* one request being handled
  pc, req, env, outbound, web, base, sin, resp,
  \* history: the request handled before this one and its response
  served,
  \* text functions applied on their own
  tpc, tin, tsrc, t1, t2, tfinal,
  \* wizard pages
  wpc, wval, wwho, wctx,
  \* a page in the browser: the script it runs, its elements (#question,
  \* #wizard-dynamic and its inputs, #context, the answer area, #spinner),
  \* localStorage, the requests in flight, the body of the last POST, the
  \* alerts shown and the clicks on the send button
  script, question, box, inputs, storage, textarea, flight, posted,
  answerBox, spinner, alerts, clicks

backendVars == <<SINAPSI_RULES, SEARCH_PROVIDER, BRAVE_API_KEY, BING_API_KEY,
                 PREFERRED_DOMAINS, requests, CRITICI_DIR, pc, req, env,
                 outbound, web, base, sin, resp, served>>
textVars == <<tpc, tin, tsrc, t1, t2, tfinal>>
pageVars == <<script, question, box, inputs, storage, textarea, flight,
              posted, answerBox, spinner, alerts, clicks>>
wizardVars == <<wpc, wval, wwho, wctx, pageVars>>
vars == <<backendVars, textVars, wizardVars>>

None == "None"

(***************************************************************************)
(* Sequence helpers                                                        *)
(***************************************************************************)
Min(a, b) == IF a <= b THEN a ELSE b

Range(s) == {s[i] : i \in 1..Len(s)}

RECURSIVE SeqsUpTo(_, _)
\* all sequences over S of length at most n
SeqsUpTo(S, n) ==
  IF n = 0 THEN {<<>>}
  ELSE LET shorter == SeqsUpTo(S, n - 1)
       IN shorter \cup {Append(s, x) : s \in {t \in shorter : Len(t) = n - 1}, x \in S}

IsPrefix(p, s) == Len(p) <= Len(s) /\ SubSeq(s, 1, Len(p)) = p

IsSuffix(p, s) ==
  Len(p) <= Len(s) /\ SubSeq(s, Len(s) - Len(p) + 1, Len(s)) = p

\* s contains p as a contiguous run
Contains(s, p) ==
  \E i \in 0..(Len(s) - Len(p)) : SubSeq(s, i + 1, i + Len(p)) = p

\* number of occurrences of token t in s
Count(s, t) == Cardinality({i \in 1..Len(s) : s[i] = t})

(***************************************************************************)
(* Python str helpers on token sequences                                   *)
(***************************************************************************)
IsWs(t) == t \in {"s", "n"}

\* str.lower() of one token
LowerTok(t) ==
  CASE t = "E" -> "e"
    [] t = "O" -> "o"
    [] t = "X" -> "x"
    [] t = "Y" -> "y"
    [] OTHER -> t

lower(s) == [i \in 1..Len(s) |-> LowerTok(s[i])]

RECURSIVE lstrip(_)
lstrip(s) == IF s # <<>> /\ IsWs(Head(s)) THEN lstrip(Tail(s)) ELSE s

RECURSIVE rstrip(_)
rstrip(s) ==
  IF s # <<>> /\ IsWs(s[Len(s)]) THEN rstrip(SubSeq(s, 1, Len(s) - 1)) ELSE s

strip(s) == rstrip(lstrip(s))

\* len() of the text a token stands for
Width(t) ==
  CASE t \in {"E", "e"} -> 20
    [] t = "l1" -> 39
    [] t = "l2" -> 85
    [] t = "F" -> 9
    [] t \in {"O", "o"} -> 2
    [] t = "R" -> 7
    [] t = "T" -> 3
    [] t \in {"k", "A"} -> 3
    [] t \in {"P", "H"} -> 4
    [] t \in {"L", "B"} -> 7
    [] t = "U" -> 29
    [] t = "N" -> 24
    [] t = "fb" -> 166
    [] t \in {"u1", "u2", "u3", "u4", "u5", "u6"} -> 24
    [] OTHER -> 1

RECURSIVE len(_)
len(s) == IF s = <<>> THEN 0 ELSE Width(Head(s)) + len(Tail(s))

RECURSIVE Take(_, _)
\* s[:n], cut at the last token boundary that fits
Take(s, n) ==
  IF s = <<>> \/ Width(Head(s)) > n THEN <<>>
  ELSE <<Head(s)>> \o Take(Tail(s), n - Width(Head(s)))

RECURSIVE join(_, _)
\* sep.join(parts)
join(sep, parts) ==
  IF parts = <<>> THEN <<>>
  ELSE IF Len(parts) = 1 THEN parts[1]
  ELSE parts[1] \o sep \o join(sep, Tail(parts))

(***************************************************************************)
(* REFINER                                                                 *)
(***************************************************************************)
lead == <<"E", "l1", "n", "l2">>

RECURSIVE SkipWs(_, _)
\* the first index >= i of s that holds no whitespace (Len(s)+1 if none)
SkipWs(s, i) == IF i <= Len(s) /\ IsWs(s[i]) THEN SkipWs(s, i + 1) ELSE i

RECURSIVE FindTok(_, _, _)
\* the first index >= i of s holding a token of set S (0 if none)
FindTok(s, i, S) ==
  IF i > Len(s) THEN 0
  ELSE IF s[i] \in S THEN i ELSE FindTok(s, i + 1, S)

\* ^OK\s*-?\s*(Riferimento|Sintesi).*?\n with re.I | re.M, tried at index i:
\* the index of the newline that ends the match, 0 if there is no match at i
HeaderMatchEnd(s, i) ==
  IF ~(i <= Len(s) /\ (i = 1 \/ s[i - 1] = "n") /\ LowerTok(s[i]) = "o") THEN 0
  ELSE LET a == SkipWs(s, i + 1)
           b == IF a <= Len(s) /\ s[a] = "-" THEN a + 1 ELSE a
           c == SkipWs(s, b)
       IN IF c <= Len(s) /\ s[c] = "R" THEN FindTok(s, c + 1, {"n"}) ELSE 0

RECURSIVE StripHeadersFrom(_, _)
\* re.sub of the header pattern by "", scanning s from index i
StripHeadersFrom(s, i) ==
  IF i > Len(s) THEN <<>>
  ELSE LET e == HeaderMatchEnd(s, i)
       IN IF e > 0 THEN StripHeadersFrom(s, e + 1)
          ELSE <<s[i]>> \o StripHeadersFrom(s, i + 1)

RECURSIVE ReplaceFonti(_)
\* text.replace("**Fonti**", "\n\n**Fonti**")
ReplaceFonti(s) ==
  IF s = <<>> THEN <<>>
  ELSE IF Head(s) = "F" THEN <<"n", "n", "F">> \o ReplaceFonti(Tail(s))
  ELSE <<Head(s)>> \o ReplaceFonti(Tail(s))

StartsWithEcco(body) == body # <<>> /\ LowerTok(body[1]) = "e"

refine_text(text_it) ==
  IF text_it = <<>> THEN <<>>
  ELSE LET body == strip(ReplaceFonti(StripHeadersFrom(text_it, 1)))
       IN IF StartsWithEcco(body) THEN body
          ELSE strip(lead \o <<"n", "n">> \o body)

(***************************************************************************)
(* RESPONSE COMPOSER                                                       *)
(***************************************************************************)
\* "\n".join(f"- {u}" for u in sources)
SrcLines(sources) ==
  join(<<"n">>, [i \in 1..Len(sources) |-> <<"-", "s", sources[i]>>])

compose_final(answer, sources) ==
  LET a == strip(answer)
  IN IF sources = <<>> THEN a
     ELSE IF Count(a, "F") > 0
          THEN (IF strip(a) # <<>> /\ strip(a)[Len(strip(a))] = "n" THEN a
                ELSE a \o <<"n">>)
               \o <<"F", "n">> \o SrcLines(sources) \o <<"n">>
          ELSE a \o <<"n", "n", "F", "n">> \o SrcLines(sources) \o <<"n">>

(***************************************************************************)
(* SINAPSI: the rule store                                                 *)
(***************************************************************************)
\* f"rule_{len(rules)}"
RuleName(n) ==
  <<"rule_0", "rule_1", "rule_2", "rule_3", "rule_4", "rule_5", "rule_6",
    "rule_7", "rule_8", "rule_9", "rule_10", "rule_11", "rule_12">>[n + 1]

\* str.lower() of a mode string
LowerTokMode(m) ==
  CASE m = "OVERRIDE" -> "override"
    [] m = "Augment" -> "augment"
    [] OTHER -> m

\* item.get(key, default): item.has holds the keys the entry supplies
Get(item, key, default) == IF key \in item.has THEN item[key] ELSE default

\* the Rule built from one entry, rules being the list loaded so far
Rule(item, rules) ==
  [id |-> Get(item, "id", RuleName(Len(rules))),
   pattern |-> item.pattern.re,
   mode |-> LowerTokMode(Get(item, "mode", "augment")),
   lang |-> Get(item, "lang", "it"),
   answer |-> strip(Get(item, "answer", <<>>))]

RECURSIVE LoadItems(_, _, _)
\* the body of "for item in data": stops at the first entry that raises
\* (an entry that is no object, a pattern that does not compile)
LoadItems(rules, data, i) ==
  IF i > Len(data) THEN rules
  ELSE LET item == data[i]
       IN IF item.kind # "dict" THEN rules
          ELSE IF item.pattern.kind \in {"missing", "empty"}
               THEN LoadItems(rules, data, i + 1)
          ELSE IF item.pattern.kind = "invalid" THEN rules
          ELSE LoadItems(Append(rules, Rule(item, rules)), data, i + 1)

RECURSIVE LoadPaths(_, _, _)
LoadPaths(rules, files, p) ==
  IF p > Len(files) THEN rules
  ELSE LET f == files[p]
       IN IF ~f.isfile \/ ~f.json THEN LoadPaths(rules, files, p + 1)
          ELSE LoadPaths(LoadItems(rules, f.data, 1), files, p + 1)

\* files: the three candidate files of CRITICI_DIR, in the order of paths
load_sinapsi_rules(files) == LoadPaths(<<>>, files, 1)

\* r.pattern.search(q) for a literal pattern compiled with re.IGNORECASE
search(pattern, q) == Contains(lower(q), lower(pattern))

(***************************************************************************)
(* SINAPSI: the rule applier                                               *)
(***************************************************************************)
apply_override(r, base_text) ==
  [text |-> refine_text(r.answer), applied |-> r.id]

\* apply_augment with the addon put before the draft
apply_augment_addon_first(r, base_text) ==
  LET merged == strip(base_text)
      addon == strip(refine_text(r.answer))
  IN [text |-> IF merged # <<>> THEN addon \o <<"n", "n">> \o rstrip(merged)
               ELSE addon,
      applied |-> r.id]

apply_augment(r, base_text) ==
  LET merged == strip(base_text)
      addon == strip(refine_text(r.answer))
  IN [text |-> IF merged # <<>> THEN rstrip(merged) \o <<"n", "n">> \o addon
               ELSE addon,
      applied |-> r.id]

apply_postscript(r, base_text) ==
  [text |-> strip(base_text) \o <<"n", "n", "N", "n">>
            \o strip(refine_text(r.answer)),
   applied |-> r.id]

\* no_match returning an empty text
no_match_empty(base_text, applied_id) == [text |-> <<>>, applied |-> applied_id]

no_match(base_text, applied_id) == [text |-> base_text, applied |-> applied_id]

RECURSIVE sinapsi_scan(_, _, _, _, _)
\* the loop of sinapsi_apply from rule i on, applied_id as assigned so far
sinapsi_scan(rules, i, q, base_text, applied_id) ==
  IF i > Len(rules) THEN no_match(base_text, applied_id)
  ELSE LET r == rules[i]
       IN IF ~search(r.pattern, q)
          THEN sinapsi_scan(rules, i + 1, q, base_text, applied_id)
          ELSE IF r.mode = "override" THEN apply_override(r, base_text)
          ELSE IF r.mode = "augment" THEN apply_augment(r, base_text)
          ELSE IF r.mode = "postscript" THEN apply_postscript(r, base_text)
          ELSE sinapsi_scan(rules, i + 1, q, base_text, r.id)

sinapsi_apply(rules, q, base_text) == sinapsi_scan(rules, 1, q, base_text, None)

Status200 == 200

Status599 == 599

(***************************************************************************)
(* HTTP UTILS                                                              *)
(***************************************************************************)
\* urlparse(url).netloc of the URLs of the model, as characters:
\* t.c is tecnaria.com, p.e is spit.eu
HostOf(url) ==
  CASE url = "u1" -> <<"t", ".", "c">>
    [] url = "u2" -> <<"w", ".", "t", ".", "c">>
    [] url = "u3" -> <<"v", ".", "c">>
    [] url = "u4" -> <<"v", "t", ".", "c">>
    [] url = "u5" -> <<"W", ".", "p", ".", "e">>
    [] url = "u6" -> <<"t", ".", "c">>
    [] OTHER -> <<>>

LowerHostChar(c) ==
  CASE c = "W" -> "w"
    [] c = "P" -> "p"
    [] OTHER -> c

lowerHost(h) == [i \in 1..Len(h) |-> LowerHostChar(h[i])]

allowed_domain(url, prefer) ==
  LET host == lowerHost(HostOf(url))
  IN \E i \in 1..Len(prefer) : IsSuffix(lowerHost(prefer[i]), host)

\* o is what the network does with one GET: o.first the outcome of
\* requests.get, o.second the outcome of urllib's urlopen ("ok" or "exc"),
\* o.status and o.body what a successful attempt reads.
\* Returns the result and the attempts made, in order.
http_get(url, o, haveRequests) ==
  IF haveRequests /\ o.first = "ok"
  THEN [status |-> o.status, body |-> o.body,
        sent |-> <<[url |-> url, via |-> "requests"]>>]
  ELSE LET before == IF haveRequests THEN <<[url |-> url, via |-> "requests"]>>
                     ELSE <<>>
           sent == Append(before, [url |-> url, via |-> "urllib"])
       IN IF o.second = "ok"
          THEN [status |-> o.status, body |-> o.body, sent |-> sent]
          ELSE [status |-> Status599, body |-> <<>>, sent |-> sent]

(***************************************************************************)
(* WEB SEARCH                                                              *)
(***************************************************************************)
\* FilterAllowed without the allowed_domain test
FilterAllowed_unfiltered(items, prefer) == items

RECURSIVE FilterAllowed(_, _)
\* the loop over the provider's items: keeps those of an allowed domain
FilterAllowed(items, prefer) ==
  IF items = <<>> THEN <<>>
  ELSE IF allowed_domain(Head(items).url, prefer)
       THEN <<Head(items)>> \o FilterAllowed(Tail(items), prefer)
       ELSE FilterAllowed(Tail(items), prefer)

\* provider_search without the test of the API key
provider_search_keyless(endpoint, key, o, prefer, haveRequests) ==
  LET r == http_get(endpoint, o, haveRequests)
  IN IF r.status # Status200 THEN [out |-> <<>>, sent |-> r.sent]
     ELSE IF ~r.body.json THEN [out |-> <<>>, sent |-> r.sent]
     ELSE [out |-> FilterAllowed(r.body.items, prefer), sent |-> r.sent]

\* key: the provider's API key is set; o: the outcome of the search request.
\* Returns the filtered results and the requests sent.
provider_search(endpoint, key, o, prefer, haveRequests) ==
  IF ~key THEN [out |-> <<>>, sent |-> <<>>]
  ELSE LET r == http_get(endpoint, o, haveRequests)
       IN IF r.status # Status200 THEN [out |-> <<>>, sent |-> r.sent]
          ELSE IF ~r.body.json THEN [out |-> <<>>, sent |-> r.sent]
          ELSE [out |-> FilterAllowed(r.body.items, prefer), sent |-> r.sent]

brave_search(key, o, prefer, haveRequests) ==
  provider_search("brave-api", key, o, prefer, haveRequests)

bing_search(key, o, prefer, haveRequests) ==
  provider_search("bing-api", key, o, prefer, haveRequests)

fetch_url_text(url, o, haveRequests) ==
  LET r == http_get(url, o, haveRequests)
  IN [text |-> IF r.status = Status200 THEN r.body ELSE <<>>, sent |-> r.sent]

(***************************************************************************)
(* HTML CLEANER                                                            *)
(***************************************************************************)
RECURSIVE CollapseWs(_)
\* re.sub(r"\s+", " ", text)
CollapseWs(s) ==
  IF s = <<>> THEN <<>>
  ELSE IF IsWs(Head(s)) THEN <<"s">> \o CollapseWs(lstrip(s))
  ELSE <<Head(s)>> \o CollapseWs(Tail(s))

\* re.sub(r"<[^>]+>", " ", raw): every tag becomes a space
DropTags(s) == [i \in 1..Len(s) |-> IF s[i] = "T" THEN "s" ELSE s[i]]

clean_html_text(raw) ==
  IF raw = <<>> THEN <<>> ELSE strip(CollapseWs(DropTags(raw)))

(***************************************************************************)
(* SNIPPET SYNTHESIS                                                       *)
(***************************************************************************)
PageBudget == 1500

JoinedBudget == 4000

DraftBudget == 1200

FallbackBudget == 800

MaxSources == 5

\* the tokens that stand for a word of the list key
KeyToks == {"k", "P", "H", "A", "L", "B"}

RECURSIVE SentenceEnd(_, _)
\* the first index >= i of a terminator followed by whitespace (0 if none)
SentenceEnd(s, i) ==
  IF i >= Len(s) THEN 0
  ELSE IF s[i] \in {".", "!", "?"} /\ IsWs(s[i + 1]) THEN i
  ELSE SentenceEnd(s, i + 1)

RECURSIVE SplitSentences(_)
\* re.split(r"(?<=[\.\!\?])\s+", joined)
SplitSentences(s) ==
  LET e == SentenceEnd(s, 1)
  IN IF e = 0 THEN <<s>>
     ELSE <<SubSeq(s, 1, e)>>
          \o SplitSentences(SubSeq(s, SkipWs(s, e + 1), Len(s)))

RECURSIVE KeepKeyed(_)
\* the sentences that contain a keyword
KeepKeyed(sentences) ==
  IF sentences = <<>> THEN <<>>
  ELSE IF Range(Head(sentences)) \cap KeyToks # {}
       THEN <<Head(sentences)>> \o KeepKeyed(Tail(sentences))
       ELSE KeepKeyed(Tail(sentences))

RECURSIVE CollapseRuns(_)
\* re.sub(r"\s{2,}", " ", draft)
CollapseRuns(s) ==
  IF s = <<>> THEN <<>>
  ELSE IF Len(s) >= 2 /\ IsWs(s[1]) /\ IsWs(s[2])
       THEN <<"s">> \o CollapseRuns(lstrip(s))
       ELSE <<Head(s)>> \o CollapseRuns(Tail(s))

RECURSIVE Dedupe(_, _)
\* list(dict.fromkeys(sources)): seen is the set of the URLs already kept
Dedupe(sources, seen) ==
  IF sources = <<>> THEN <<>>
  ELSE IF Head(sources) \in seen THEN Dedupe(Tail(sources), seen)
  ELSE <<Head(sources)>> \o Dedupe(Tail(sources), seen \cup {Head(sources)})

\* xs[:5]
Take5(xs) == SubSeq(xs, 1, Min(Len(xs), MaxSources))

\* body = clean_html_text(page) or clean_html_text(s.get("snippet", ""))
body_of(cleaned, snippet) ==
  IF cleaned # <<>> THEN cleaned ELSE clean_html_text(snippet)

\* if body: bodies.append(body[:1500]); sources.append(s["url"])
add_body(acc, url, body, sent) ==
  [bodies |-> IF body # <<>> THEN Append(acc.bodies, Take(body, PageBudget))
              ELSE acc.bodies,
   sources |-> IF body # <<>> THEN Append(acc.sources, url) ELSE acc.sources,
   sent |-> acc.sent \o sent]

\* one turn of the loop over snips, page being what fetch_url_text gave
collect(acc, sn, page) ==
  add_body(acc, sn.url, body_of(clean_html_text(page.text), sn.snippet), page.sent)

RECURSIVE FetchAll(_, _, _)
\* the loop over snips: acc holds bodies, sources and the requests sent
FetchAll(snips, haveRequests, acc) ==
  IF snips = <<>> THEN acc
  ELSE FetchAll(Tail(snips), haveRequests,
                collect(acc, Head(snips),
                        fetch_url_text(Head(snips).url, Head(snips).page,
                                       haveRequests)))

\* draft = " ".join(keep)[:1200] or joined[:800]
pick_draft(kept, joined) ==
  IF kept # <<>> THEN kept ELSE Take(joined, FallbackBudget)

\* the draft made of the joined bodies
draft_of(joined) ==
  strip(CollapseRuns(
    pick_draft(Take(join(<<"s">>, KeepKeyed(SplitSentences(joined))), DraftBudget),
               joined)))

\* the end of synthesize_snippets, f being what the loop collected
synthesized(f) ==
  IF f.bodies = <<>>
  THEN [draft |-> <<>>, sources |-> f.sources, sent |-> f.sent]
  ELSE [draft |-> draft_of(Take(join(<<"s">>, f.bodies), JoinedBudget)),
        sources |-> Take5(Dedupe(f.sources, {})),
        sent |-> f.sent]

synthesize_snippets(snips, haveRequests) ==
  IF snips = <<>> THEN [draft |-> <<>>, sources |-> <<>>, sent |-> <<>>]
  ELSE synthesized(FetchAll(snips, haveRequests,
                            [bodies |-> <<>>, sources |-> <<>>, sent |-> <<>>]))

(***************************************************************************)
(* PIPELINE                                                                *)
(***************************************************************************)
ShortenWidth == 450

MinBaseLen == 60

Terminators == {".", ";"}

\* group(1) of re.search(r"(a.*?b.*?)(?:\.|;)", text): from the first a, over
\* the first b after it, up to the first terminator after that (<<>> if none)
TwoWordMatch(text, a, b) ==
  LET i == FindTok(text, 1, {a})
      j == IF i = 0 THEN 0 ELSE FindTok(text, i + 1, {b})
      k == IF j = 0 THEN 0 ELSE FindTok(text, j + 1, Terminators)
  IN IF k = 0 THEN <<>> ELSE SubSeq(text, i, k - 1)

RECURSIVE EtaMatch(_, _)
\* group(1) of re.search(r"(ETA|European Technical Assessment.*?)(?:\.|;)"),
\* tried from index i on
EtaMatch(text, i) ==
  IF i > Len(text) THEN <<>>
  ELSE IF text[i] = "A" /\ i < Len(text) /\ text[i + 1] \in Terminators
       THEN <<"A">>
  ELSE IF text[i] = "U" /\ FindTok(text, i + 1, Terminators) > 0
       THEN SubSeq(text, i, FindTok(text, i + 1, Terminators) - 1)
  ELSE EtaMatch(text, i + 1)

RECURSIVE Words(_)
\* text.split()
Words(s) ==
  LET t == lstrip(s)
  IN IF t = <<>> THEN <<>>
     ELSE LET e == FindTok(t, 1, {"s", "n"})
          IN IF e = 0 THEN <<t>>
             ELSE <<SubSeq(t, 1, e - 1)>> \o Words(SubSeq(t, e, Len(t)))

RECURSIVE FitWords(_, _)
\* the longest run of leading words that fits in width with the placeholder
FitWords(words, width) ==
  IF words = <<>> \/ len(join(<<"s">>, words)) + 1 <= width THEN words
  ELSE FitWords(SubSeq(words, 1, Len(words) - 1), width)

\* textwrap.shorten(text, width, placeholder="...")
shorten(text, width) ==
  LET words == Words(text)
      whole == join(<<"s">>, words)
  IN IF len(whole) <= width THEN whole
     ELSE join(<<"s">>, FitWords(words, width)) \o <<"...">>

\* the labelled blocks of web_answer, or the shortened text if fewer than
\* two patterns are found
Blocks(text) ==
  LET m1 == TwoWordMatch(text, "P", "H")
      m2 == EtaMatch(text, 1)
      m3 == TwoWordMatch(text, "L", "B")
      b1 == IF m1 = <<>> THEN <<>> ELSE <<<<"-", "s", "lab1", "s">> \o m1 \o <<".">>>>
      b2 == IF m2 = <<>> THEN <<>> ELSE <<<<"-", "s", "lab2", "s">> \o m2 \o <<".">>>>
      b3 == IF m3 = <<>> THEN <<>> ELSE <<<<"-", "s", "lab3", "s">> \o m3 \o <<".">>>>
      blocks == b1 \o b2 \o b3
  IN IF Len(blocks) < 2 THEN <<shorten(text, ShortenWidth)>> ELSE blocks

\* results of the configured provider: the if/elif/else of web_answer
provider_results(cfg, e) ==
  IF cfg.provider = "brave"
  THEN brave_search(cfg.brave_key, e.search, cfg.prefer, cfg.requests)
  ELSE IF cfg.provider = "bing"
  THEN bing_search(cfg.bing_key, e.search, cfg.prefer, cfg.requests)
  ELSE [out |-> <<>>, sent |-> <<>>]

\* web_answer after synthesize_snippets returned syn
web_text(syn, found) ==
  IF syn.draft = <<>>
  THEN [text |-> <<>>, sources |-> syn.sources, results |-> found.out,
        sent |-> found.sent \o syn.sent]
  ELSE [text |-> refine_text(<<"O", "n">> \o join(<<"n">>, Blocks(syn.draft))),
        sources |-> syn.sources, results |-> found.out,
        sent |-> found.sent \o syn.sent]

\* web_answer after the search returned found
web_of(found, haveRequests) ==
  IF found.out = <<>>
  THEN [text |-> <<>>, sources |-> <<>>, results |-> <<>>, sent |-> found.sent]
  ELSE web_text(synthesize_snippets(found.out, haveRequests), found)

\* cfg: the module globals read; e: what the network answers to this request
web_answer(cfg, e) == web_of(provider_results(cfg, e), cfg.requests)

fallback == <<"fb">>

\* the draft answer_pipeline hands to sinapsi_apply
base_of(web_txt) ==
  IF web_txt # <<>> /\ len(web_txt) >= MinBaseLen THEN web_txt ELSE <<>>

\* final_of refining the fallback message only for the first request served
final_of_once(sin_text) ==
  IF sin_text # <<>> THEN sin_text
  ELSE IF served.has THEN fallback
  ELSE refine_text(fallback)

\* the text answer_pipeline composes from what sinapsi_apply returned
final_of(sin_text) ==
  IF sin_text = <<>> THEN refine_text(fallback) ELSE sin_text

\* the end of answer_pipeline, and what it went through: w from web_answer,
\* sa from sinapsi_apply
composed(w, sa) ==
  [web |-> w, base |-> base_of(w.text), sin |-> sa,
   answer |-> compose_final(final_of(sa.text), w.sources),
   sent |-> w.sent]

\* answer_pipeline after web_answer returned w
piped(rules, q, w) == composed(w, sinapsi_apply(rules, q, base_of(w.text)))

answer_pipeline(rules, cfg, q, e) == piped(rules, q, web_answer(cfg, e))

(***************************************************************************)
(* HTTP ENDPOINTS                                                          *)
(***************************************************************************)
\* "OK\n- **Domanda vuota**: inserisci una richiesta valida."
EmptyQuestionAnswer == <<"O", "n", "-", "s", "dv">>

Success(answer) == [ok |-> TRUE, has |-> "answer", answer |-> answer, error |-> None]

Failure(error) == [ok |-> FALSE, has |-> "error", answer |-> <<>>, error |-> error]

\* q of GET /ask: the query parameter, stripped
q_of_get(r) == strip(r.q)

\* q of POST /api/ask: (body.get("q") or "").strip(), "" if anything raises
q_of_post(r) ==
  IF r.json /\ "q" \in r.keys THEN strip(r.q) ELSE <<>>

\* what a handler returns and what it leaves to observe, p being the
\* record of answer_pipeline
Handled(p) ==
  [resp |-> Success(p.answer), web |-> p.web, base |-> p.base, sin |-> p.sin,
   sent |-> p.sent]

NotRun == [text |-> <<>>, sources |-> <<>>, results |-> <<>>, sent |-> <<>>]

Unhandled(response) ==
  [resp |-> response, web |-> NotRun, base |-> <<>>,
   sin |-> [text |-> <<>>, applied |-> None], sent |-> <<>>]

ask_get(rules, cfg, r, e) ==
  IF q_of_get(r) = <<>> THEN Unhandled(Success(EmptyQuestionAnswer))
  ELSE Handled(answer_pipeline(rules, cfg, q_of_get(r), e))

ask_post(rules, cfg, r, e) ==
  IF q_of_post(r) = <<>> THEN Unhandled(Failure("Missing q"))
  ELSE Handled(answer_pipeline(rules, cfg, q_of_post(r), e))

(***************************************************************************)
(* Inputs: rule files, configuration, requests, network outcomes           *)
(***************************************************************************)
MaxItems == 2

MaxResults == 2

\* an entry of a rules file
Entry(pat, has, id, mode, answer) ==
  [kind |-> "dict", pattern |-> [kind |-> "ok", re |-> pat], has |-> has,
   id |-> id, mode |-> mode, lang |-> "it", answer |-> answer]

NoPattern(kind) ==
  [kind |-> "dict", pattern |-> [kind |-> kind, re |-> <<>>], has |-> {},
   id |-> None, mode |-> None, lang |-> "it", answer |-> <<>>]

NotAnObject ==
  [kind |-> "string", pattern |-> [kind |-> "missing", re |-> <<>>], has |-> {},
   id |-> None, mode |-> None, lang |-> "it", answer |-> <<>>]

EntryPool ==
  { Entry(<<"x">>, {"mode", "answer"}, None, "override", <<"y", "s", "F">>),
    Entry(<<"y">>, {"mode", "answer"}, None, "augment", <<"y">>),
    Entry(<<"x">>, {"mode", "answer"}, None, "postscript", <<"s", "y", "n">>),
    Entry(<<"Y">>, {"mode", "answer"}, None, "replace", <<"x">>) }

File(data) == [isfile |-> TRUE, json |-> TRUE, data |-> data]

Absent == [isfile |-> FALSE, json |-> FALSE, data |-> <<>>]

Corrupt == [isfile |-> TRUE, json |-> FALSE, data |-> <<>>]

\* sinapsi_rules.json
Files1 == {Absent} \cup {File(d) : d \in SeqsUpTo(EntryPool, MaxItems) \ {<<>>}}

\* sinapsi_brain.json
Files2 ==
  { Absent, Corrupt,
    File(<<NoPattern("missing"),
           Entry(<<"x">>, {"id"}, "r1", None, <<>>),
           NoPattern("invalid"),
           Entry(<<"x">>, {"mode", "answer"}, None, "override", <<"x">>)>>),
    File(<<NoPattern("empty"), NotAnObject,
           Entry(<<"x">>, {"mode", "answer"}, None, "override", <<"x">>)>>) }

\* sinapsi.json
Files3 ==
  { Absent,
    File(<<Entry(<<"z">>, {"mode", "answer"}, None, "OVERRIDE", <<>>)>>) }

Tecnaria == <<"t", ".", "c">>

Spit == <<"p", ".", "e">>

DefaultConfig ==
  [provider |-> "brave", brave_key |-> TRUE, bing_key |-> FALSE,
   prefer |-> <<Tecnaria, Spit>>, requests |-> TRUE]

Configs ==
  [provider : {"brave", "bing", "google"}, brave_key : BOOLEAN,
   bing_key : BOOLEAN, prefer : {<<Tecnaria, Spit>>, <<<<"P", ".", "e">>>>},
   requests : BOOLEAN]

FixedFiles ==
  <<File(<<Entry(<<"x">>, {"mode", "answer"}, None, "augment", <<"y">>)>>),
    Absent,
    File(<<Entry(<<"y">>, {"mode", "answer"}, None, "override", <<>>)>>)>>

GetRequests ==
  {[method |-> "GET", json |-> FALSE, keys |-> {"q"}, q |-> q] :
     q \in {<<>>, <<"s">>, <<"s", "X", "n">>, <<"x", "s", "y">>, <<"z">>}}

PostRequests ==
  { [method |-> "POST", json |-> FALSE, keys |-> {}, q |-> <<>>],
    [method |-> "POST", json |-> TRUE, keys |-> {"q"}, q |-> <<"y">>],
    [method |-> "POST", json |-> TRUE, keys |-> {"q"}, q |-> <<"n", "s">>],
    [method |-> "POST", json |-> TRUE, keys |-> {"question", "mode", "context"},
     q |-> <<"x">>] }

Ok200(body) == [first |-> "ok", second |-> "ok", status |-> Status200, body |-> body]

Retried200(body) ==
  [first |-> "exc", second |-> "ok", status |-> Status200, body |-> body]

Status404(body) == [first |-> "ok", second |-> "exc", status |-> 404, body |-> body]

Down(body) == [first |-> "exc", second |-> "exc", status |-> Status599, body |-> body]

\* one item of the provider's answer, with what fetching its page gives
ResultPool ==
  { [url |-> "u1", snippet |-> <<>>,
     page |-> Ok200(<<"T", "k", ".", "n", "x", "T">>)],
    [url |-> "u3", snippet |-> <<"x">>, page |-> Ok200(<<"x">>)],
    [url |-> "u2", snippet |-> <<"x", "s", "F">>, page |-> Status404(<<"x">>)],
    [url |-> "u4", snippet |-> <<>>,
     page |-> Retried200(<<"P", "s", "H", ";", "s", "A", ".">>)],
    [url |-> "u5", snippet |-> <<>>, page |-> Down(<<>>)] }

Payload(items) == [json |-> TRUE, items |-> items]

NoPayload == [json |-> FALSE, items |-> <<>>]

Envs ==
  {[search |-> Ok200(Payload(items))] : items \in SeqsUpTo(ResultPool, MaxResults)}
  \cup { [search |-> Ok200(NoPayload)],
         [search |-> Status404(NoPayload)],
         [search |-> Down(NoPayload)],
         [search |-> Retried200(Payload(<<CHOOSE r \in ResultPool : r.url = "u1">>))] }

NoEnv == [search |-> Down(NoPayload)]

(***************************************************************************)
(* The backend as a state machine: one request at a time                   *)
(***************************************************************************)
Cfg ==
  [provider |-> SEARCH_PROVIDER, brave_key |-> BRAVE_API_KEY,
   bing_key |-> BING_API_KEY, prefer |-> PREFERRED_DOMAINS,
   requests |-> requests]

NoRequest == [method |-> "none", json |-> FALSE, keys |-> {}, q |-> <<>>]

Idle ==
  /\ pc = "idle"
  /\ req = NoRequest
  /\ env = NoEnv
  /\ outbound = <<>>
  /\ web = NotRun
  /\ base = <<>>
  /\ sin = [text |-> <<>>, applied |-> None]
  /\ resp = Failure(None)

\* no request was handled yet
Unserved == [has |-> FALSE, req |-> NoRequest, env |-> NoEnv, results |-> <<>>,
             resp |-> Failure(None)]

Boot(files, cfg) ==
  /\ CRITICI_DIR = files
  /\ served = Unserved
  /\ SINAPSI_RULES = load_sinapsi_rules(files)
  /\ SEARCH_PROVIDER = cfg.provider
  /\ BRAVE_API_KEY = cfg.brave_key
  /\ BING_API_KEY = cfg.bing_key
  /\ PREFERRED_DOMAINS = cfg.prefer
  /\ requests = cfg.requests
  /\ Idle

TextIdle ==
  /\ tpc = "off"
  /\ tin = <<>>
  /\ tsrc = <<>>
  /\ t1 = <<>>
  /\ t2 = <<>>
  /\ tfinal = <<>>

\* #wizard-dynamic before any render: display none, no schema
Hidden == [display |-> "none", schema |-> ""]

\* no input of the wizard holds a value
NoFields ==
  [h_lamiera |-> <<>>, s_soletta |-> <<>>, vled |-> <<>>, cls |-> <<>>,
   passo |-> <<>>, dir |-> <<>>, s_long |-> <<>>, t_lamiera |-> <<>>,
   nr_gola |-> <<>>]

\* localStorage without saved parameters
NoParams == [has |-> FALSE, data |-> NoFields]

\* no POST was issued
NoBody == [n |-> 0, question |-> <<>>, context |-> <<>>]

\* the answer area before any answer
NoAnswer == [n |-> 0, text |-> ""]

\* the page as loaded, running the script src
Loaded(src) ==
  /\ script = src
  /\ question = <<>>
  /\ box = Hidden
  /\ inputs = NoFields
  /\ textarea = <<>>
  /\ flight = <<>>
  /\ posted = NoBody
  /\ answerBox = NoAnswer
  /\ spinner = FALSE
  /\ alerts = 0
  /\ clicks = 0

WizardIdle ==
  /\ wpc = "off"
  /\ wval = <<>>
  /\ wwho = None
  /\ wctx = <<>>
  /\ Loaded("off")
  /\ storage = NoParams

\* the rule files found at start-up: any first file alone, or the later files
\* after a first file that is absent or holds one rule
Stores ==
  {<<f1, Absent, Absent>> : f1 \in Files1}
    \cup ({Absent, FixedFiles[1]} \X Files2 \X Files3)

Init ==
  /\ \/ \E files \in Stores : Boot(files, DefaultConfig)
     \/ \E cfg \in Configs : Boot(FixedFiles, cfg)
  /\ TextIdle
  /\ WizardIdle

Serve(r, e, h) ==
  /\ pc = "idle"
  /\ pc' = "done"
  /\ req' = r
  /\ env' = e
  /\ outbound' = h.sent
  /\ web' = h.web
  /\ base' = h.base
  /\ sin' = h.sin
  /\ resp' = h.resp
  /\ UNCHANGED <<SINAPSI_RULES, SEARCH_PROVIDER, BRAVE_API_KEY, BING_API_KEY,
                 PREFERRED_DOMAINS, requests, CRITICI_DIR, served, textVars,
                 wizardVars>>

\* the environments a request can meet: none is consulted for an empty q
EnvsFor(q) == IF q = <<>> THEN {NoEnv} ELSE Envs

AskGet ==
  \E r \in GetRequests : \E e \in EnvsFor(q_of_get(r)) :
    Serve(r, e, ask_get(SINAPSI_RULES, Cfg, r, e))

AskPost ==
  \E r \in PostRequests : \E e \in EnvsFor(q_of_post(r)) :
    Serve(r, e, ask_post(SINAPSI_RULES, Cfg, r, e))

\* the response is sent; nothing of the request is kept
Finish ==
  /\ pc = "done"
  /\ pc' = "idle"
  /\ req' = NoRequest
  /\ env' = NoEnv
  /\ outbound' = <<>>
  /\ web' = NotRun
  /\ base' = <<>>
  /\ sin' = [text |-> <<>>, applied |-> None]
  /\ resp' = Failure(None)
  /\ UNCHANGED <<SINAPSI_RULES, SEARCH_PROVIDER, BRAVE_API_KEY, BING_API_KEY,
                 PREFERRED_DOMAINS, requests, CRITICI_DIR, served, textVars,
                 wizardVars>>

Next == AskGet \/ AskPost \/ Finish

Spec == Init /\ [][Next]_vars

(***************************************************************************)
(* The text functions on their own: refine_text applied once and again,    *)
(* compose_final applied to the refined text                               *)
(***************************************************************************)
MaxLen == 3

Alphabet == {"x", "s", "n", "F", "E", "e", "O", "-", "R"}

Texts == SeqsUpTo(Alphabet, MaxLen)

SourceLists == {<<>>, <<"u1">>, <<"u1", "u2">>}

BackendIdle == Boot(FixedFiles, DefaultConfig)

InitText ==
  /\ BackendIdle
  /\ WizardIdle
  /\ tpc = "given"
  /\ tin \in Texts
  /\ tsrc \in SourceLists
  /\ t1 = <<>>
  /\ t2 = <<>>
  /\ tfinal = <<>>

Refine ==
  /\ tpc = "given"
  /\ tpc' = "refined"
  /\ t1' = refine_text(tin)
  /\ UNCHANGED <<tin, tsrc, t2, tfinal, backendVars, wizardVars>>

RefineAgain ==
  /\ tpc = "refined"
  /\ tpc' = "twice"
  /\ t2' = refine_text(t1)
  /\ UNCHANGED <<tin, tsrc, t1, tfinal, backendVars, wizardVars>>

Compose ==
  /\ tpc = "refined"
  /\ tpc' = "composed"
  /\ tfinal' = compose_final(t1, tsrc)
  /\ UNCHANGED <<tin, tsrc, t1, t2, backendVars, wizardVars>>

NextText == Refine \/ RefineAgain \/ Compose

SpecText == InitText /\ [][NextText]_vars

(***************************************************************************)
(* The wizard pages: four scripts compose the context string               *)
(*   "apply"  the #apply-wizard click handler                              *)
(*   "fill"   fillContextFromWizard of wizard.js                           *)
(*   "schema" syncWizardToContext / buildContextFromSchema of wizard.js    *)
(*   "sync"   syncWizardToContext of the older schema script               *)
(* A field value is a sequence of characters: "s" a space, "5" a visible   *)
(* character, "lo" / "tr" the options longitudinale / trasversale.         *)
(***************************************************************************)
\* the label template of a field filled with value v
Segment(field, v) ==
  CASE field = "h_lamiera" -> <<"lamiera H">> \o v
    [] field = "s_soletta" -> <<"soletta ">> \o v \o <<" mm">>
    [] field = "vled" -> <<"V_L,Ed=">> \o v \o <<" kN/m">>
    [] field = "cls" -> <<"cls ">> \o v
    [] field = "passo" -> <<"passo gola ">> \o v \o <<" mm">>
    [] field = "dir" -> <<"lamiera ">> \o v
    [] field = "s_long" -> <<"passo lungo trave ">> \o v \o <<" mm">>
    [] field = "t_lamiera" -> <<"t=">> \o v \o <<" mm">>
    [] field = "nr_gola" -> <<"nr=">> \o v

\* String.prototype.trim
trim(v) == strip(v)

RECURSIVE PartsTrimmed(_, _)
\* parts of a builder that trims each value: if (v) parts.push(...)
PartsTrimmed(fields, val) ==
  IF fields = <<>> THEN <<>>
  ELSE (IF trim(val[Head(fields)]) # <<>>
        THEN <<Segment(Head(fields), trim(val[Head(fields)]))>> ELSE <<>>)
       \o PartsTrimmed(Tail(fields), val)

RECURSIVE PartsRaw(_, _)
\* parts of a builder that reads el.value as it is
PartsRaw(fields, val) ==
  IF fields = <<>> THEN <<>>
  ELSE (IF val[Head(fields)] # <<>>
        THEN <<Segment(Head(fields), val[Head(fields)])>> ELSE <<>>)
       \o PartsRaw(Tail(fields), val)

ApplyFields ==
  <<"h_lamiera", "s_soletta", "vled", "cls", "passo", "dir", "s_long",
    "t_lamiera", "nr_gola">>

\* WIZ_FIELDS, under the ids of the templates they fill
FillFields ==
  <<"h_lamiera", "s_soletta", "vled", "cls", "passo", "dir", "s_long">>

\* WIZARD_SCHEMAS.CTF_CALC
SchemaFields == <<"h_lamiera", "s_soletta", "vled", "cls", "passo", "dir">>

\* the #apply-wizard click handler
apply_wizard(val) == join(<<", ">>, PartsTrimmed(ApplyFields, val))

fillContextFromWizard(val) == join(<<", ">>, PartsRaw(FillFields, val))

buildContextFromSchema(val) == join(<<", ">>, PartsTrimmed(SchemaFields, val))

\* syncWizardToContext of the older schema script
syncWizardToContext(val) == join(<<", ">>, PartsRaw(SchemaFields, val))

\* what an input of type number, of type text and a select can hold
NumberValues == {<<>>, <<"5">>}

TextValues == {<<>>, <<"s">>, <<"5">>, <<"s", "5", "s">>}

SelectValues(page) ==
  IF page = "fill" THEN {<<"lo">>, <<"tr">>} ELSE {<<>>, <<"lo">>, <<"tr">>}

FieldsOf(page) ==
  CASE page = "apply" -> ApplyFields
    [] page = "fill" -> FillFields
    [] OTHER -> SchemaFields

ValuesOf(page, field) ==
  CASE field = "cls" -> TextValues
    [] field = "dir" -> SelectValues(page)
    [] OTHER -> NumberValues

\* what field can hold on page: a field the page lacks holds <<>>
Held(page, field) ==
  IF field \in Range(FieldsOf(page)) THEN ValuesOf(page, field) ELSE {<<>>}

\* the values of the fields of a page
FieldStates(page) ==
  [h_lamiera : Held(page, "h_lamiera"), s_soletta : Held(page, "s_soletta"),
   vled : Held(page, "vled"), cls : Held(page, "cls"),
   passo : Held(page, "passo"), dir : Held(page, "dir"),
   s_long : Held(page, "s_long"), t_lamiera : Held(page, "t_lamiera"),
   nr_gola : Held(page, "nr_gola")]

InitWizard ==
  /\ BackendIdle
  /\ TextIdle
  /\ wpc = "filled"
  /\ wwho \in {"apply", "fill", "schema", "sync"}
  /\ wval \in FieldStates(wwho)
  /\ wctx = <<>>
  /\ Loaded("off")
  /\ storage = NoParams

Built(context) ==
  /\ wpc = "filled"
  /\ wpc' = "built"
  /\ wctx' = context
  /\ UNCHANGED <<wval, wwho, pageVars, backendVars, textVars>>

ApplyWizard == wwho = "apply" /\ Built(apply_wizard(wval))

FillContext == wwho = "fill" /\ Built(fillContextFromWizard(wval))

SyncSchema == wwho = "schema" /\ Built(buildContextFromSchema(wval))

SyncOld == wwho = "sync" /\ Built(syncWizardToContext(wval))

NextWizard == ApplyWizard \/ FillContext \/ SyncSchema \/ SyncOld

SpecWizard == InitWizard /\ [][NextWizard]_vars

(***************************************************************************)
(* wizard.js in the browser: the question box, the dynamic wizard, the     *)
(* context textarea and sendQuestion. In a question "alt" stands for a     *)
(* word of the calculation intent (altezza, portata, ...) and "lam" for a  *)
(* word of the CTF domain (lamiera, soletta, ...); "m" in the textarea is  *)
(* text typed by hand. null and "" are both written "".                    *)
(***************************************************************************)
MaxClicks == 2

builderVars == <<wpc, wval, wwho, wctx>>

detectWizardSchema(text) ==
  IF "alt" \notin Range(lower(text)) THEN ""
  ELSE IF "lam" \in Range(lower(text)) THEN "CTF_CALC"
  ELSE ""

\* WIZARD_SCHEMAS[schemaKey] || []; every field of CTF_CALC is required
WIZARD_SCHEMAS(schemaKey) == IF schemaKey = "CTF_CALC" THEN SchemaFields ELSE <<>>

\* the values the inputs hold after loadParams on fresh inputs
loadParams(store) == IF store.has THEN store.data ELSE NoFields

\* the wizard box, its inputs and the textarea after renderWizard(schemaKey),
\* ctx being the textarea before
renderWizard(schemaKey, store, ctx) ==
  IF WIZARD_SCHEMAS(schemaKey) = <<>>
  THEN [box |-> Hidden, inputs |-> NoFields, textarea |-> ctx]
  ELSE [box |-> [display |-> "block", schema |-> schemaKey],
        inputs |-> loadParams(store),
        textarea |-> buildContextFromSchema(loadParams(store))]

\* validateWizard without the trim of the values
validateWizard_untrimmed(schemaKey, val) ==
  \A i \in 1..Len(WIZARD_SCHEMAS(schemaKey)) :
    val[WIZARD_SCHEMAS(schemaKey)[i]] # <<>>

\* no required field of the schema is blank
validateWizard(schemaKey, val) ==
  \A i \in 1..Len(WIZARD_SCHEMAS(schemaKey)) :
    trim(val[WIZARD_SCHEMAS(schemaKey)[i]]) # <<>>

\* s without its i-th element
Drop(s, i) == [j \in 1..(Len(s) - 1) |-> IF j < i THEN s[j] ELSE s[j + 1]]

Questions == {<<"x">>, <<"alt">>, <<"alt", "s", "lam">>}

\* the input the user changes; the others keep what localStorage gave them
Editable == {"cls"}

\* localStorage when the page is opened: nothing saved, or the parameters
\* of an earlier visit
Saved ==
  { NoParams,
    [has |-> TRUE,
     data |-> [NoFields EXCEPT !.h_lamiera = <<"5">>, !.s_soletta = <<"5">>,
                               !.vled = <<"5">>, !.passo = <<"5">>,
                               !.dir = <<"lo">>]] }

ManualTexts == {<<>>, <<"m">>}

\* what the response to a request can be
Replies == {"answer", "needs_params", "error"}

InitPage ==
  /\ BackendIdle
  /\ TextIdle
  /\ wpc = "off" /\ wval = <<>> /\ wwho = None /\ wctx = <<>>
  /\ Loaded("wizard.js")
  /\ storage \in Saved

\* the wizard box, its inputs and the textarea become those of r
Shown(r) ==
  /\ box' = r.box
  /\ inputs' = r.inputs
  /\ textarea' = r.textarea

\* the user types a question: the input listener of #question (toggle)
TypeQuestion ==
  /\ script = "wizard.js"
  /\ \E q \in Questions :
       /\ question' = q
       /\ IF detectWizardSchema(q) # ""
          THEN Shown(renderWizard(detectWizardSchema(q), storage, textarea))
          ELSE box' = Hidden /\ UNCHANGED <<inputs, textarea>>
  /\ UNCHANGED <<script, storage, flight, posted, answerBox, spinner, alerts,
                 clicks, builderVars, backendVars, textVars>>

\* the user changes an input of the wizard: its input listener syncs the
\* textarea and saves the parameters
EditField ==
  /\ script = "wizard.js"
  /\ box.display = "block"
  /\ \E f \in Range(WIZARD_SCHEMAS(box.schema)) \cap Editable :
     \E v \in ValuesOf("schema", f) :
       /\ inputs' = [inputs EXCEPT ![f] = v]
       /\ textarea' = buildContextFromSchema([inputs EXCEPT ![f] = v])
       /\ storage' = [has |-> TRUE, data |-> [inputs EXCEPT ![f] = v]]
  /\ UNCHANGED <<script, question, box, flight, posted, answerBox, spinner,
                 alerts, clicks, builderVars, backendVars, textVars>>

\* the user edits the textarea by hand
EditContext ==
  /\ script = "wizard.js"
  /\ \E t \in ManualTexts : textarea' = t
  /\ UNCHANGED <<script, question, box, inputs, storage, flight, posted,
                 answerBox, spinner, alerts, clicks, builderVars, backendVars,
                 textVars>>

\* sendQuestion up to the fetch: r is the page after the early render
Issue(r, schemaKey) ==
  /\ Shown(r)
  /\ IF schemaKey # "" /\ ~validateWizard(schemaKey, r.inputs)
     THEN alerts' = alerts + 1 /\ UNCHANGED <<flight, posted>>
     ELSE /\ flight' = Append(flight, [n |-> clicks + 1, question |-> question])
          /\ posted' = [n |-> clicks + 1, question |-> question,
                        context |-> textarea]
          /\ UNCHANGED alerts

Prepared(r) == Issue(r, IF r.box.display # "none" THEN r.box.schema ELSE "")

SendQuestion ==
  /\ script = "wizard.js"
  /\ clicks < MaxClicks
  /\ clicks' = clicks + 1
  /\ IF detectWizardSchema(question) # ""
     THEN Prepared(renderWizard(detectWizardSchema(question), storage, textarea))
     ELSE Prepared([box |-> box, inputs |-> inputs, textarea |-> textarea])
  /\ UNCHANGED <<script, question, storage, answerBox, spinner, builderVars,
                 backendVars, textVars>>

\* sendQuestion after the fetch, for the request r and the response data
Replied(r, data) ==
  IF data = "needs_params"
  THEN /\ Shown(renderWizard(IF detectWizardSchema(r.question) # ""
                             THEN detectWizardSchema(r.question) ELSE "CTF_CALC",
                             storage, textarea))
       /\ answerBox' = [n |-> r.n, text |-> "Per completare la risposta"]
  ELSE /\ answerBox' =
            [n |-> r.n,
             text |-> IF data = "answer" THEN "answer"
                      ELSE "Errore di rete. Riprova."]
       /\ UNCHANGED <<box, inputs, textarea>>

\* the response to a request in flight arrives, in any order
Receive ==
  /\ script = "wizard.js"
  /\ \E i \in 1..Len(flight) : \E data \in Replies :
       flight' = Drop(flight, i) /\ Replied(flight[i], data)
  /\ UNCHANGED <<script, question, storage, posted, spinner, alerts, clicks,
                 builderVars, backendVars, textVars>>

NextPage == TypeQuestion \/ EditField \/ EditContext \/ SendQuestion \/ Receive

SpecPage == InitPage /\ [][NextPage]_vars

(***************************************************************************)
(* The page of the #send click handler: question, context, spinner         *)
(***************************************************************************)
InitSend ==
  /\ BackendIdle
  /\ TextIdle
  /\ wpc = "off" /\ wval = <<>> /\ wwho = None /\ wctx = <<>>
  /\ Loaded("part_000")
  /\ storage = NoParams

\* the user types a question and a context
TypeBoth ==
  /\ script = "part_000"
  /\ question' \in Questions \cup {<<"s">>}
  /\ textarea' \in {<<>>, <<"m", "s">>}
  /\ UNCHANGED <<script, box, inputs, storage, flight, posted, answerBox,
                 spinner, alerts, clicks, builderVars, backendVars, textVars>>

\* the #send click handler up to the fetch
ClickSend ==
  /\ script = "part_000"
  /\ clicks < MaxClicks
  /\ clicks' = clicks + 1
  /\ IF trim(question) = <<>>
     THEN /\ answerBox' = [n |-> 0, text |-> "Inserisci una domanda."]
          /\ UNCHANGED <<spinner, flight, posted>>
     ELSE /\ spinner' = TRUE
          /\ flight' = Append(flight, [n |-> clicks + 1, question |-> trim(question)])
          /\ posted' = [n |-> clicks + 1, question |-> trim(question),
                        context |-> trim(textarea)]
          /\ UNCHANGED answerBox
  /\ UNCHANGED <<script, question, box, inputs, storage, textarea, alerts,
                 builderVars, backendVars, textVars>>

\* the #send click handler after the fetch: the response to a request in
\* flight arrives, in any order
Arrive ==
  /\ script = "part_000"
  /\ \E i \in 1..Len(flight) : \E data \in {"answer", "error"} :
       /\ flight' = Drop(flight, i)
       /\ answerBox' = [n |-> flight[i].n,
                        text |-> IF data = "answer" THEN "answer"
                                 ELSE "Errore di rete o server."]
  /\ spinner' = FALSE
  /\ UNCHANGED <<script, question, box, inputs, storage, textarea, posted,
                 alerts, clicks, builderVars, backendVars, textVars>>

NextSend == TypeBoth \/ ClickSend \/ Arrive

SpecSend == InitSend /\ [][NextSend]_vars

(***************************************************************************)
(* The backend serving one request after another, the earlier one kept     *)
(***************************************************************************)
MaxRepeatResults == 1

RepeatEnvs ==
  {[search |-> Ok200(Payload(items))] :
     items \in SeqsUpTo(ResultPool, MaxRepeatResults)}
  \cup { [search |-> Ok200(NoPayload)],
         [search |-> Status404(NoPayload)],
         [search |-> Down(NoPayload)] }

RepeatStores == {FixedFiles, <<Absent, Absent, Absent>>}

RepeatConfigs == {DefaultConfig, [DefaultConfig EXCEPT !.brave_key = FALSE]}

InitRepeat ==
  /\ \E files \in RepeatStores, cfg \in RepeatConfigs : Boot(files, cfg)
  /\ TextIdle
  /\ WizardIdle

RepeatEnvsFor(q) == IF q = <<>> THEN {NoEnv} ELSE RepeatEnvs

AskGetAgain ==
  \E r \in GetRequests : \E e \in RepeatEnvsFor(q_of_get(r)) :
    Serve(r, e, ask_get(SINAPSI_RULES, Cfg, r, e))

AskPostAgain ==
  \E r \in PostRequests : \E e \in RepeatEnvsFor(q_of_post(r)) :
    Serve(r, e, ask_post(SINAPSI_RULES, Cfg, r, e))

\* the response is sent; the process keeps nothing of the request, the
\* history keeps what was asked and answered
Remember ==
  /\ pc = "done"
  /\ pc' = "idle"
  /\ req' = NoRequest
  /\ env' = NoEnv
  /\ outbound' = <<>>
  /\ web' = NotRun
  /\ base' = <<>>
  /\ sin' = [text |-> <<>>, applied |-> None]
  /\ resp' = Failure(None)
  /\ served' = [has |-> TRUE, req |-> req, env |-> env, results |-> web.results,
                resp |-> resp]
  /\ UNCHANGED <<SINAPSI_RULES, SEARCH_PROVIDER, BRAVE_API_KEY, BING_API_KEY,
                 PREFERRED_DOMAINS, requests, CRITICI_DIR, textVars,
                 wizardVars>>

NextRepeat == AskGetAgain \/ AskPostAgain \/ Remember

SpecRepeat == InitRepeat /\ [][NextRepeat]_vars

(***************************************************************************)
(* Claims                                                                  *)
(***************************************************************************)
\* the question the handler passes to answer_pipeline (<<>> if it does not)
Asked ==
  IF req.method = "GET" THEN q_of_get(req)
  ELSE IF req.method = "POST" THEN q_of_post(req)
  ELSE <<>>

\* a request went through answer_pipeline and its response is ready
Ran == pc = "done" /\ Asked # <<>>

\* the indices of the rules whose pattern matches the question
Matching == {i \in 1..Len(SINAPSI_RULES) : search(SINAPSI_RULES[i].pattern, Asked)}

\* the first rule, in load order, whose pattern matches the question
FirstMatch == SINAPSI_RULES[CHOOSE i \in Matching : \A j \in Matching : i <= j]

\* the selected search provider has no configured API key
NoKey ==
  \/ SEARCH_PROVIDER = "brave" /\ ~BRAVE_API_KEY
  \/ SEARCH_PROVIDER = "bing" /\ ~BING_API_KEY

\* the provider answered this request's search with some item
Offered == env.search.second = "ok" /\ env.search.body.items # <<>>

\* C1 (as stated): when the first matching rule has mode override, the answer
\* of answer_pipeline equals refine_text(rule.answer), whatever the web
\* search returned.
C1_OverrideAnswerIsRefinedRule ==
  Ran /\ Matching # {} /\ FirstMatch.mode = "override"
    => resp.answer = refine_text(FirstMatch.answer)

\* C2: when the first matching rule has mode augment and the draft is not
\* empty, sinapsi_apply returns the draft, one blank line, then the refined
\* rule answer.
C2_AugmentDraftThenRule ==
  Ran /\ Matching # {} /\ FirstMatch.mode = "augment" /\ base # <<>>
    => sin.text = base \o <<"n", "n">> \o refine_text(FirstMatch.answer)

C2_Witness ==
  /\ Ran /\ Matching # {} /\ FirstMatch.mode = "augment"
  /\ base # <<>> /\ FirstMatch.answer # <<>>
  /\ sin.applied = FirstMatch.id

\* C3 (as stated): the rule sinapsi_apply applies is the first rule in load
\* order whose pattern matches, whatever its mode.
C3_FirstMatchApplied ==
  Ran /\ Matching # {} => sin.applied = FirstMatch.id

\* C4: if no rule matches, sinapsi_apply returns the draft as given and no
\* applied-rule identifier.
C4_NoMatchDraftUnchanged ==
  Ran /\ Matching = {} => sin.text = base /\ sin.applied = None

C4_Witness ==
  Ran /\ Matching = {} /\ SINAPSI_RULES # <<>> /\ base # <<>> /\ sin.text = base

\* C5 (as stated): for an empty or whitespace-only question, on GET /ask and
\* on POST /api/ask, the response is the fixed "empty question" message and
\* no outbound call is made.
C5_EmptyQuestionMessage ==
  pc = "done" /\ Asked = <<>>
    => resp = Success(EmptyQuestionAnswer) /\ outbound = <<>>

\* C6 (as stated): refine_text is idempotent,
\* refine_text(refine_text(x)) = refine_text(x) for every text x.
C6_RefineIdempotent == tpc = "twice" => t2 = t1

\* the URLs written in a text
UrlsIn(text) == Range(text) \cap {"u1", "u2", "u3", "u4", "u5", "u6"}

\* the pages fetched for this request
Fetched ==
  {outbound[i].url : i \in {j \in 1..Len(outbound) :
                              outbound[j].url \notin {"brave-api", "bing-api"}}}

\* C7: a search result whose host matches no domain of the allow-list by
\* suffix is never fetched and never listed in the sources of an answer.
C7_SourcesAllowed ==
  pc = "done" =>
    \A u \in Range(web.sources) \cup Fetched \cup UrlsIn(resp.answer) :
      allowed_domain(u, PREFERRED_DOMAINS)

C7_Witness ==
  /\ pc = "done" /\ web.sources # <<>> /\ UrlsIn(resp.answer) # {}
  /\ \E i \in 1..Len(env.search.body.items) :
       ~allowed_domain(env.search.body.items[i].url, PREFERRED_DOMAINS)

\* C8 (as stated): compose_final appends the source URLs without adding a
\* second heading when the body holds the marker **Fonti**: the composed
\* answer holds the heading at most once.
C8_OneFontiHeading ==
  Ran /\ Count(final_of(sin.text), "F") <= 1 => Count(resp.answer, "F") <= 1

\* C9 (as stated): every context builder joins with ", ", in the fixed order,
\* the templates of exactly the fields whose trimmed value is not empty, each
\* filled with the trimmed value.
C9_ContextTrimmedJoin ==
  wpc = "built" => wctx = join(<<", ">>, PartsTrimmed(FieldsOf(wwho), wval))

\* C10: when the selected provider has no API key, the search adapter returns
\* an empty list without any outbound request, and answer_pipeline returns a
\* non-empty answer, the refined fallback message when no rule matches.
C10_NoKeyFallback ==
  Ran /\ NoKey =>
    /\ outbound = <<>>
    /\ web.results = <<>>
    /\ resp.ok /\ resp.answer # <<>>
    /\ Matching = {} => resp.answer = lead \o <<"n", "n", "fb">>

C10_Witness ==
  Ran /\ NoKey /\ Offered /\ Matching = {} /\ resp.answer = lead \o <<"n", "n", "fb">>

\* the question text the request carries, under whatever key
Question == strip(req.q)

\* the request's body can be read: a query string, or a JSON object
WellFormed == req.method = "GET" \/ (req.method = "POST" /\ req.json)

\* C11 (as stated): only a request with a malformed body gets a failure
\* response; every well-formed request with a non-empty question gets, for
\* every outcome of the search and of the page fetches, a success response
\* with a non-empty answer.
C11_FailureOnlyMalformed ==
  pc = "done" =>
    /\ ~resp.ok => req.method = "POST" /\ ~req.json
    /\ WellFormed /\ Question # <<>> => resp.ok /\ resp.answer # <<>>

\* C12 (as stated): a POST whose JSON body is {question, mode, context} with a
\* non-empty question gets a response carrying the answer of answer_pipeline
\* for that question.
C12_WizardPostAnswered ==
  /\ pc = "done" /\ req.method = "POST" /\ req.json
  /\ req.keys = {"question", "mode", "context"} /\ Question # <<>>
  => resp = Success(answer_pipeline(SINAPSI_RULES, Cfg, Question, env).answer)

\* the positions of outbound that are requests to the search provider
Searches == {i \in 1..Len(outbound) : outbound[i].url \in {"brave-api", "bing-api"}}

\* the positions of outbound after which the same URL is requested anew,
\* the attempt through requests having raised
Retries ==
  {i \in 1..(Len(outbound) - 1) :
     /\ outbound[i].via = "requests" /\ outbound[i + 1].via = "urllib"
     /\ outbound[i + 1].url = outbound[i].url}

\* C13 (as stated): while one request is handled, at most one outbound
\* request goes to the search provider, and no outbound request that failed
\* is attempted a second time.
C13_OneSearchNoRetry ==
  pc = "done" => Cardinality(Searches) <= 1 /\ Retries = {}

\* loading the file fails: it cannot be parsed, or one of its entries is no
\* object or has a pattern that does not compile
LoadFails(f) ==
  \/ ~f.json
  \/ \E i \in 1..Len(f.data) :
       f.data[i].kind # "dict" \/ f.data[i].pattern.kind = "invalid"

RECURSIVE PatternsOf(_, _)
\* the patterns of the entries of data, from the i-th on, that have one
PatternsOf(data, i) ==
  IF i > Len(data) THEN <<>>
  ELSE IF data[i].pattern.kind = "ok"
       THEN <<data[i].pattern.re>> \o PatternsOf(data, i + 1)
  ELSE PatternsOf(data, i + 1)

RECURSIVE WantedPatterns(_, _)
\* the patterns of the rules to load from the files, from the p-th on: none
\* from a file that is absent or whose loading fails
WantedPatterns(files, p) ==
  IF p > Len(files) THEN <<>>
  ELSE IF ~files[p].isfile \/ LoadFails(files[p]) THEN WantedPatterns(files, p + 1)
  ELSE PatternsOf(files[p].data, 1) \o WantedPatterns(files, p + 1)

\* C14 (as stated): load_sinapsi_rules skips an entry without a non-empty
\* pattern and loads the rest of its file; a file whose loading fails
\* contributes no rule, and the rules of the other files are loaded in order.
C14_FailedFileSkipped ==
  [i \in 1..Len(SINAPSI_RULES) |-> SINAPSI_RULES[i].pattern]
    = WantedPatterns(CRITICI_DIR, 1)

BeginsWithLead(text) == IsPrefix(lower(lead), lower(text))

\* C16 (as stated): for a non-empty input, the output of refine_text holds
\* the lead sentence; an input that begins with the lead sentence, letter
\* case apart, gets no second one.
C16_LeadPresent ==
  tpc \in {"refined", "twice", "composed"} /\ tin # <<>> =>
    /\ Contains(lower(t1), lower(lead))
    /\ BeginsWithLead(tin) => ~Contains(lower(Tail(t1)), lower(lead))

\* what synthesize_snippets returned for this request's search results
Synthesis == synthesize_snippets(web.results, requests)

\* the search results without the i-th
Without(i) == [j \in 1..(Len(web.results) - 1) |->
                 IF j < i THEN web.results[j] ELSE web.results[j + 1]]

\* the i-th result's text is used in the draft: without it the draft differs
Contributes(i) == synthesize_snippets(Without(i), requests).draft # Synthesis.draft

\* C17 (as stated): the sources returned by synthesize_snippets hold no URL
\* twice, at most 5 entries, and exactly the URLs of the pages whose text was
\* used to build the draft.
C17_SourcesAreUsedPages ==
  pc = "done" =>
    /\ \A i, j \in 1..Len(Synthesis.sources) :
         Synthesis.sources[i] = Synthesis.sources[j] => i = j
    /\ Len(Synthesis.sources) <= MaxSources
    /\ \A i \in 1..Len(web.results) :
         Contributes(i) <=> web.results[i].url \in Range(Synthesis.sources)

\* a POST is issued in this step
Posts == Len(flight') > Len(flight)

\* the wizard is visible with a schema and a required field of the schema is
\* blank once trimmed
BlankRequired(b, val) ==
  /\ b.display # "none" /\ b.schema = "CTF_CALC"
  /\ \E i \in 1..Len(SchemaFields) : strip(val[SchemaFields[i]]) = <<>>

\* C18: sendQuestion of wizard.js issues no POST while the dynamic wizard is
\* visible with a schema and a required field of it is blank after trimming.
C18_NoPostWithBlankRequired ==
  [][Posts => ~BlankRequired(box', inputs')]_vars

C18_Witness ==
  /\ script = "wizard.js" /\ clicks > 0 /\ alerts = clicks /\ posted = NoBody
  /\ inputs.cls = <<"s">> /\ inputs.h_lamiera # <<>>
  /\ BlankRequired(box, inputs)

\* C19 (as stated): the context sendQuestion of wizard.js posts equals the
\* content of the context textarea at the moment the request is issued.
C19_PostedContextIsTextarea ==
  [][Posts => posted'.context = textarea']_vars

\* C20 (as stated): once every request has completed, the answer area shows
\* the response to the most recently sent question, whatever the order of
\* the responses, and the spinner is visible exactly while a request is in
\* flight.
C20_LatestAnswerAndSpinner ==
  script = "part_000" =>
    /\ flight = <<>> /\ posted.n > 0 /\ answerBox.n > 0 => answerBox.n = posted.n
    /\ spinner <=> flight # <<>>

====
